---- MODULE Spec2Model ----
(***************************************************************************)
(* Session lifecycle engine of the milking-session tracker: the Socket.IO  *)
(* handlers (Start / Pause / Resume / Stop / Sync / recovery), the per-user *)
(* tick timer and connection registry, the TTL session store and lock with *)
(* their in-memory fallbacks, and the persistence bridge.                   *)
(*                                                                         *)
(* Every `await` of the source is a suspension point; an action is the     *)
(* code that runs between two suspension points.  Timestamps are           *)
(* milliseconds (Date.now()), elapsedTime / totalPausedTime are seconds    *)
(* as in the source ((now - lastUpdateTime) / 1000); the clock moves in    *)
(* whole seconds, so the division is exact.                                *)
(***************************************************************************)
EXTENDS Integers, FiniteSets, Sequences, TLC

\* ---------------------------------------------------------------- bounds
MaxOps == 4           \* client events (and connects) handled in one run
MaxClockSteps == 3    \* times the clock advances in one run
MaxFlaps == 1         \* times the cache changes availability between store calls
MaxDrops == 1         \* times the cache fails between a ping and the command after it
MaxDbFlaps == 1       \* times the durable store changes availability

\* ------------------------------------------------------ program constants
TICK_INTERVAL_MS == 1000
DEFAULT_LOCK_TTL_SECONDS == 300
DEFAULT_SESSION_TTL_SECONDS == 3600
HISTORY_CACHE_TTL_SECONDS == 300

AllUsers == {"u1", "u2"}
Users == {"u1"}
Sockets == {"s1", "s2"}
NoUser == "none"

\* Date.now() at process start (a positive instant: the code tests
\* `if (session.pausedAt)`, which a zero timestamp would fail)
T0 == 1000

\* clock advances: one tick interval, or a whole lock TTL
Delays == {TICK_INTERVAL_MS, DEFAULT_LOCK_TTL_SECONDS * 1000}

VARIABLES
  now,          \* Date.now()
  redisUp,      \* the cache answers (isRedisConnected's ping succeeds)
  dbUp,         \* the durable store answers
  redisSess,    \* cache: active_session:{userId} -> entry
  memSess,      \* inMemorySessions: userId -> the object held and its expiry
  heap,         \* the session objects that are or were held by inMemorySessions
  redisLock,    \* cache: lock:milking:{userId} -> expiry instant (0 = absent)
  memLock,      \* inMemoryLocks: userId -> expiry instant (0 = absent)
  db,           \* durable MilkingSession rows
  histCache,    \* cache: history:{userId} -> cached GET /sessions result
  http,         \* the GET /sessions request in progress and the last response
  activeTimers, \* activeTimers map: userId -> has an entry
  intervals,    \* number of setInterval handles of the user not yet cleared
  tickDue,      \* the user's interval has elapsed and its callback has not run yet
  userSockets,  \* userSockets map: userId -> set of socket ids
  sockUser,     \* socket.data.userId
  connected,    \* the socket is connected
  pc,           \* per socket: where its handler is suspended
  hl,           \* per socket: the handler's locals
  tpc,          \* per user: where the tick callback is suspended
  tl,           \* per user: the tick callback's locals
  emitted,      \* events emitted by the last step
  nOps, nClock, nFlaps, nDrops, nDbFlaps,
  \* history variables (observations, never read by the program)
  nStarted,     \* SESSION_STARTED emitted for the user since its last SESSION_STOPPED
  logical,      \* status the client was last told: "idle" / "active" / "paused"
  activeSec,    \* seconds the clock advanced while logical = "active"
  awaySec,      \* ... of which with no socket registered for the user
  lockGrant     \* expiry of the last acquire that returned true and was not released

vars == << now, redisUp, dbUp, redisSess, memSess, heap, redisLock, memLock, db,
           histCache, http,
           activeTimers, intervals, tickDue, userSockets, sockUser, connected,
           pc, hl, tpc, tl, emitted, nOps, nClock, nFlaps, nDrops, nDbFlaps,
           nStarted,
           logical, activeSec, awaySec, lockGrant >>

storeVars == << redisSess, memSess, heap >>
lockVars == << redisLock, memLock >>
timerVars == << activeTimers, intervals, tickDue >>
regVars == << userSockets, sockUser >>
envVars == << now, dbUp, nClock, nDbFlaps >>
httpVars == << histCache, http >>
tickVars == << tpc, tl >>
histVars == << nStarted, logical, activeSec, awaySec, lockGrant >>

\* ------------------------------------------------------------ data model
ACTIVE == "active"
PAUSED == "paused"
COMPLETED == "completed"

\* oid is the identity of a session object that inMemorySessions holds or
\* held (its index in heap); 0 for an object that only its holder can reach:
\* one just built, or parsed from the cache's JSON
NoSession == [status |-> "none", startTime |-> 0, lastUpdateTime |-> 0,
              elapsedTime |-> 0, pausedAt |-> 0, totalPausedTime |-> 0,
              oid |-> 0]

NoEntry == [session |-> NoSession, expiresAt |-> 0]

NoMemEntry == [oid |-> 0, expiresAt |-> 0]

\* lockIn is an observation, never read by the program: the store in which
\* the handler's acquireSessionLock set the lock
NoLocals == [user |-> NoUser, session |-> NoSession,
             finalElapsedTime |-> 0, activeRef |-> 0,
             persistedId |-> 0, created |-> FALSE, lockIn |-> "none"]

\* history:{userId} in the cache (an absent key has no sessions)
NoHistory == [sessions |-> << >>, expiresAt |-> 0]

\* the GET /sessions request: where it is suspended, and the response sent
NoRequest == [pc |-> "idle", user |-> NoUser, status |-> 0,
              sessions |-> << >>, cached |-> FALSE]

Exists(session) == session.status # "none"

Event(s, type, u, elapsed, code) ==
  [sock |-> s, type |-> type, user |-> u, elapsedTime |-> elapsed, code |-> code]

ErrorEvent(s, u, code) == Event(s, "error", u, 0, code)

\* --------------------------------------------------- cache client (redis)
\* A store call pings the cache first (isRedisConnected) and then issues
\* its commands.  `down` says the cache becomes unreachable between the ping
\* and the command: the client's wrappers then swallow the error.
DownChoices == IF redisUp /\ nDrops < MaxDrops THEN {FALSE, TRUE} ELSE {FALSE}

CacheStep(down) ==
  /\ redisUp' = (redisUp /\ ~down)
  /\ nDrops' = IF down THEN nDrops + 1 ELSE nDrops
  /\ UNCHANGED nFlaps

RedisLive(entry) == Exists(entry.session) /\ entry.expiresAt > now

\* get: the value, or null when the key is absent, expired or the call fails
RedisGet(u, opOk) ==
  IF opOk /\ RedisLive(redisSess[u]) THEN redisSess[u].session ELSE NoSession

\* JSON.stringify(session): the value, without the object's identity
Serialized(session) == [session EXCEPT !.oid = 0]

\* a write under a key that does not embed the userId: one record for all
SetWithTTLShared(store, u, session, ttlSeconds, opOk) ==
  IF opOk
    THEN [v \in AllUsers |-> [session |-> Serialized(session),
                              expiresAt |-> now + ttlSeconds * 1000]]
    ELSE store

\* setWithTTL: SETEX; a failed call is swallowed and writes nothing
SetWithTTL(store, u, session, ttlSeconds, opOk) ==
  IF opOk
    THEN [store EXCEPT ![u] = [session |-> Serialized(session),
                               expiresAt |-> now + ttlSeconds * 1000]]
    ELSE store

\* del: removes the key; a failed call is swallowed
Del(store, u, absent, opOk) ==
  IF opOk THEN [store EXCEPT ![u] = absent] ELSE store

\* setNxWithTTL: SET NX EX; true iff the key was set, false when it exists
\* or the call fails
SetNxResult(u, opOk) == opOk /\ redisLock[u] <= now

\* ------------------------------------------------------- session store
\* inMemorySessions.set(sessionKey, {session, expiresAt}): the map holds the
\* object itself, not a copy
MemSet(store, u, oid, ttlSeconds) ==
  [store EXCEPT ![u] = [oid |-> oid, expiresAt |-> now + ttlSeconds * 1000]]

MemHolds(entry) == entry.oid # 0

MemExpired(entry) == MemHolds(entry) /\ now > entry.expiresAt

\* inMemoryData.session: the object the entry holds, as it is now
MemObject(entry) == IF MemHolds(entry) THEN heap[entry.oid] ELSE NoSession

\* getSession: a fresh object parsed from the cache's record when the cache
\* answers with one, else the object the in-memory map holds unless its
\* entry has expired
GetSession(u, opOk) ==
  IF Exists(RedisGet(u, opOk)) THEN RedisGet(u, opOk)
  ELSE IF MemHolds(memSess[u]) /\ ~MemExpired(memSess[u])
         THEN MemObject(memSess[u])
         ELSE NoSession

\* getSession drops an expired in-memory record it runs into
MemAfterGet(u, opOk) ==
  IF ~Exists(RedisGet(u, opOk)) /\ MemExpired(memSess[u])
    THEN [memSess EXCEPT ![u] = NoMemEntry]
    ELSE memSess

\* a store operation assigns to the fields of the object getSession
\* returned: when that is the object the in-memory map holds, every holder
\* of the object sees the assignment at once
HeapAfterMutation(session, mutated) ==
  IF session.oid = 0 THEN heap ELSE [heap EXCEPT ![session.oid] = mutated]

\* the object a local variable refers to, as it is now
Current(session) == IF session.oid = 0 THEN session ELSE heap[session.oid]

\* the write every store operation ends with: the cache when the ping
\* succeeded (the write is lost when the cache fails after the ping), the
\* in-memory map when the ping failed
RedisAfterWrite(u, session, ping, opOk) ==
  IF ping THEN SetWithTTL(redisSess, u, Current(session),
                          DEFAULT_SESSION_TTL_SECONDS, opOk)
          ELSE redisSess

\* identity of the object after it was put into the in-memory map
OidInMap(session) == IF session.oid = 0 THEN Len(heap) + 1 ELSE session.oid

MemAfterWrite(u, session, ping) ==
  IF ping THEN memSess
          ELSE MemSet(memSess, u, OidInMap(session), DEFAULT_SESSION_TTL_SECONDS)

HeapAfterWrite(session, ping) ==
  IF ~ping /\ session.oid = 0
    THEN Append(heap, [session EXCEPT !.oid = Len(heap) + 1])
    ELSE heap

\* a createSession whose record starts out paused
NewSessionPaused ==
  [status |-> PAUSED, startTime |-> now, lastUpdateTime |-> now,
   elapsedTime |-> 0, pausedAt |-> now, totalPausedTime |-> 0, oid |-> 0]

\* createSession: the record built at Date.now()
NewSession ==
  [status |-> ACTIVE, startTime |-> now, lastUpdateTime |-> now,
   elapsedTime |-> 0, pausedAt |-> 0, totalPausedTime |-> 0, oid |-> 0]

\* a reconciliation that counts one tick interval per call instead of the
\* clock time since lastUpdateTime
ReconciledByTick(session) ==
  [session EXCEPT !.elapsedTime = @ + TICK_INTERVAL_MS \div 1000,
                  !.lastUpdateTime = now]

\* session.elapsedTime += (now - session.lastUpdateTime) / 1000
Reconciled(session) ==
  [session EXCEPT !.elapsedTime = @ + (now - session.lastUpdateTime) \div 1000,
                  !.lastUpdateTime = now]

PausedRecord(session) ==
  [Reconciled(session) EXCEPT !.status = PAUSED, !.pausedAt = now]

ResumedRecord(session) ==
  [session EXCEPT
     !.totalPausedTime = IF session.pausedAt # 0
                           THEN @ + (now - session.pausedAt) \div 1000
                           ELSE @,
     !.status = ACTIVE, !.lastUpdateTime = now, !.pausedAt = 0]

\* --------------------------------------------------------------- lock
\* acquireSessionLock: SET NX in the cache when the ping succeeded, else
\* the in-memory map ("succeed only if absent or expired")
AcquireResult(u, ping, opOk) ==
  IF ping THEN SetNxResult(u, opOk)
          ELSE ~(memLock[u] # 0 /\ memLock[u] > now)

LockExpiry == now + DEFAULT_LOCK_TTL_SECONDS * 1000

\* ------------------------------------------------- timers and registry
TimerStopped(tm, u) == [tm EXCEPT ![u] = FALSE]

IntervalsAfterStop(iv, u) ==
  IF activeTimers[u] THEN [iv EXCEPT ![u] = @ - 1] ELSE iv

\* a startSessionTimer that sets a new interval without clearing the old one
IntervalsAfterStartUncleared(iv, u) == [iv EXCEPT ![u] = @ + 1]

\* startSessionTimer: clears the user's timer, then sets a new interval
IntervalsAfterStart(iv, u) == [IntervalsAfterStop(iv, u) EXCEPT ![u] = @ + 1]

\* clearInterval / a fresh setInterval: nothing is due until the clock moves
NotDue(u) == [tickDue EXCEPT ![u] = FALSE]

Registered(reg, u, s) == [reg EXCEPT ![u] = @ \cup {s}]

Unregistered(reg, u, s) == [reg EXCEPT ![u] = @ \ {s}]

\* unregisterUserSocket stops the timer when it removed the user's last socket
LastSocketLeaves(u, s) == userSockets[u] # {} /\ userSockets[u] \ {s} = {}

\* ---------------------------------------------------------------- Init
\* the process has just started: nothing in the cache, the maps and the
\* registry
InitProcess ==
  /\ now = T0
  /\ dbUp = TRUE
  /\ redisSess = [u \in AllUsers |-> NoEntry]
  /\ memSess = [u \in AllUsers |-> NoMemEntry]
  /\ heap = << >>
  /\ redisLock = [u \in AllUsers |-> 0]
  /\ memLock = [u \in AllUsers |-> 0]
  /\ histCache = [u \in AllUsers |-> NoHistory]
  /\ http = NoRequest
  /\ activeTimers = [u \in AllUsers |-> FALSE]
  /\ intervals = [u \in AllUsers |-> 0]
  /\ tickDue = [u \in AllUsers |-> FALSE]
  /\ userSockets = [u \in AllUsers |-> {}]
  /\ sockUser = [s \in Sockets |-> NoUser]
  /\ connected = [s \in Sockets |-> TRUE]
  /\ pc = [s \in Sockets |-> "idle"]
  /\ hl = [s \in Sockets |-> NoLocals]
  /\ tpc = [u \in AllUsers |-> "idle"]
  /\ tl = [u \in AllUsers |-> NoSession]
  /\ emitted = {}
  /\ nClock = 0
  /\ nStarted = [u \in AllUsers |-> 0]
  /\ logical = [u \in AllUsers |-> "idle"]
  /\ activeSec = [u \in AllUsers |-> 0]
  /\ awaySec = [u \in AllUsers |-> 0]
  /\ lockGrant = [u \in AllUsers |-> 0]

\* ... and no session was ever persisted
InitState == InitProcess /\ db = {} /\ nOps = 0

\* the record of a session that an earlier run of the process persisted
PastRow ==
  [id |-> 1, userId |-> "u1", startTime |-> T0 - TICK_INTERVAL_MS,
   endTime |-> T0 - TICK_INTERVAL_MS, duration |-> 0, elapsedTime |-> 0,
   pausedTime |-> 0]

\* the process starts with that record in the durable store; the cache and
\* the durable store stay reachable
InitWithHistory ==
  /\ InitProcess /\ db = {PastRow} /\ nOps = 0 /\ redisUp = TRUE
  /\ nFlaps = MaxFlaps /\ nDrops = MaxDrops /\ nDbFlaps = MaxDbFlaps

\* events handled in a run of two devices that stop one session at the same
\* time: one more, for the Sync that binds the second device (a connection
\* runs one handler at a time here, so the second Stop needs a connection
\* of its own)
MaxOpsStopRace == MaxOps + 1

\* the cache and the durable store stay reachable, and the run may handle
\* MaxOpsStopRace events
InitStopRace ==
  /\ InitProcess /\ db = {} /\ nOps = MaxOps - MaxOpsStopRace /\ redisUp = TRUE
  /\ nFlaps = MaxFlaps /\ nDrops = MaxDrops /\ nDbFlaps = MaxDbFlaps

\* the cache is reachable when the process starts
InitBase == InitState /\ redisUp = TRUE

\* the cache and the durable store may fail
Init == InitBase /\ nFlaps = 0 /\ nDrops = 0 /\ nDbFlaps = 0

\* the cache and the durable store stay reachable
InitReliable ==
  InitBase /\ nFlaps = MaxFlaps /\ nDrops = MaxDrops /\ nDbFlaps = MaxDbFlaps

\* only the cache may fail, and only between store calls
InitCacheFaults ==
  InitBase /\ nFlaps = 0 /\ nDrops = MaxDrops /\ nDbFlaps = MaxDbFlaps

\* only the durable store may fail
InitDbFaults ==
  InitBase /\ nFlaps = MaxFlaps /\ nDrops = MaxDrops /\ nDbFlaps = 0

\* the cache is unreachable from the start and stays so
InitCacheDown ==
  /\ InitState /\ redisUp = FALSE
  /\ nFlaps = MaxFlaps /\ nDrops = MaxDrops /\ nDbFlaps = MaxDbFlaps

\* a client event reaches an idle, connected socket
Arrives(s) == connected[s] /\ pc[s] = "idle" /\ nOps < MaxOps

Goto(s, label) == pc' = [pc EXCEPT ![s] = label]

\* the handler returns: its locals are gone
Done(s) ==
  /\ pc' = [pc EXCEPT ![s] = "idle"]
  /\ hl' = [hl EXCEPT ![s] = NoLocals]

\* ------------------------------------------------------ handleSessionStart
\* SESSION_START arrives: the handler runs up to `await acquireSessionLock`
HandleSessionStart(s, u) ==
  /\ Arrives(s)
  /\ nOps' = nOps + 1
  /\ Goto(s, "start_acquire")
  /\ hl' = [hl EXCEPT ![s] = [NoLocals EXCEPT !.user = u]]
  /\ emitted' = {}
  /\ UNCHANGED << redisUp, nFlaps, nDrops, storeVars, lockVars, db, timerVars, regVars,
                  connected, envVars, httpVars, tickVars, histVars >>

\* acquireSessionLock returns; on false the handler emits SESSION_LOCK_FAILED
StartAcquireLock(s) ==
  /\ pc[s] = "start_acquire"
  /\ \E down \in DownChoices :
       LET u == hl[s].user
           ping == redisUp
           opOk == redisUp /\ ~down
           acquired == AcquireResult(u, ping, opOk)
       IN /\ CacheStep(down)
          /\ redisLock' = IF ping /\ acquired
                            THEN [redisLock EXCEPT ![u] = LockExpiry]
                            ELSE redisLock
          /\ memLock' = IF ~ping /\ acquired
                          THEN [memLock EXCEPT ![u] = LockExpiry]
                          ELSE memLock
          /\ lockGrant' = IF acquired
                            THEN [lockGrant EXCEPT ![u] = LockExpiry]
                            ELSE lockGrant
          /\ IF acquired
               THEN /\ Goto(s, "start_get")
                    /\ hl' = [hl EXCEPT ![s].lockIn =
                                         IF ping THEN "cache" ELSE "memory"]
                    /\ emitted' = {}
               ELSE /\ Done(s)
                    /\ emitted' = {ErrorEvent(s, u, "SESSION_LOCK_FAILED")}
  /\ UNCHANGED << storeVars, db, timerVars, regVars, connected, envVars, httpVars,
                  tickVars, nOps, nStarted, logical, activeSec, awaySec >>

\* getSession returns inside handleSessionStart; with no session found
\* createSession is called, builds the record at this instant and suspends
\* in isRedisConnected
StartGetSession(s) ==
  /\ pc[s] = "start_get"
  /\ \E down \in DownChoices :
       LET u == hl[s].user
           opOk == redisUp /\ ~down
           existingSession == GetSession(u, opOk)
       IN /\ CacheStep(down)
          /\ memSess' = MemAfterGet(u, opOk)
          /\ hl' = [hl EXCEPT ![s].session =
                               IF Exists(existingSession) THEN existingSession
                                                          ELSE NewSession]
          /\ Goto(s, IF Exists(existingSession) THEN "start_release"
                                                ELSE "start_create")
  /\ emitted' = {}
  /\ UNCHANGED << redisSess, heap, lockVars, db, timerVars, regVars, connected,
                  envVars, httpVars, tickVars, nOps, histVars >>

\* releaseSessionLock returns; the handler emits SESSION_EXISTS
StartReleaseLock(s) ==
  /\ pc[s] = "start_release"
  /\ \E down \in DownChoices :
       LET u == hl[s].user
           opOk == redisUp /\ ~down
       IN /\ CacheStep(down)
          /\ redisLock' = Del(redisLock, u, 0, opOk)
          /\ memLock' = [memLock EXCEPT ![u] = 0]
          /\ lockGrant' = [lockGrant EXCEPT ![u] = 0]
          /\ emitted' = {ErrorEvent(s, u, "SESSION_EXISTS")}
  /\ Done(s)
  /\ UNCHANGED << storeVars, db, timerVars, regVars, connected, envVars, httpVars,
                  tickVars, nOps, nStarted, logical, activeSec, awaySec >>

\* createSession returns; the handler registers the socket, starts the
\* timer and emits SESSION_STARTED
StartCreateSession(s) ==
  /\ pc[s] = "start_create"
  /\ \E down \in DownChoices :
       LET u == hl[s].user
           ping == redisUp
           opOk == redisUp /\ ~down
           session == hl[s].session
       IN /\ CacheStep(down)
          /\ redisSess' = RedisAfterWrite(u, session, ping, opOk)
          /\ memSess' = MemAfterWrite(u, session, ping)
          /\ heap' = HeapAfterWrite(session, ping)
          /\ userSockets' = Registered(userSockets, u, s)
          /\ sockUser' = [sockUser EXCEPT ![s] = u]
          /\ intervals' = IntervalsAfterStart(intervals, u)
          /\ activeTimers' = [activeTimers EXCEPT ![u] = TRUE]
          /\ tickDue' = NotDue(u)
          /\ emitted' = {Event(s, "SESSION_STARTED", u, session.elapsedTime, "")}
          /\ nStarted' = [nStarted EXCEPT ![u] = @ + 1]
          /\ logical' = [logical EXCEPT ![u] = ACTIVE]
          /\ activeSec' = [activeSec EXCEPT ![u] = 0]
          /\ awaySec' = [awaySec EXCEPT ![u] = 0]
  /\ Done(s)
  /\ UNCHANGED << lockVars, db, connected, envVars, httpVars, tickVars, nOps, lockGrant >>

\* a handler that goes on without a session
NeverNotFound(session) == FALSE

\* `if (!session)` in handleSessionPause, Resume, Stop and Sync: the handler
\* emits SESSION_NOT_FOUND and returns
NotFound(session) == ~Exists(session)

\* a refusal that sends nothing
RefusedSilently(s, u) ==
  /\ sockUser[s] # u
  /\ Done(s)
  /\ emitted' = {}

\* a handler that fails its authorization check answers at once
Unauthorized(s, u) ==
  /\ sockUser[s] # u
  /\ Done(s)
  /\ emitted' = {ErrorEvent(s, u, "UNAUTHORIZED")}

\* a handler without the authorization check
AuthorizedUnchecked(s, u, label) ==
  /\ Goto(s, label)
  /\ hl' = [hl EXCEPT ![s] = [NoLocals EXCEPT !.user = u]]
  /\ emitted' = {}

\* socket.data.userId === userId: the handler goes on to its store call
Authorized(s, u, label) ==
  /\ sockUser[s] = u
  /\ Goto(s, label)
  /\ hl' = [hl EXCEPT ![s] = [NoLocals EXCEPT !.user = u]]
  /\ emitted' = {}

\* ------------------------------------------------------ handleSessionPause
HandleSessionPause(s, u) ==
  /\ Arrives(s)
  /\ nOps' = nOps + 1
  /\ Unauthorized(s, u) \/ Authorized(s, u, "pause_read")
  /\ UNCHANGED << redisUp, nFlaps, nDrops, storeVars, lockVars, db, timerVars, regVars,
                  connected, envVars, httpVars, tickVars, histVars >>

\* pauseSession without its early return
NeverAlreadyPaused(session) == FALSE

\* pauseSession: `if (session.status === PAUSED) return session`
AlreadyPaused(session) == session.status = PAUSED

\* pauseSession up to its write: getSession returns, the record is
\* reconciled and marked paused at the current instant
PauseRead(s) ==
  /\ pc[s] = "pause_read"
  /\ \E down \in DownChoices :
       LET u == hl[s].user
           opOk == redisUp /\ ~down
           session == GetSession(u, opOk)
       IN /\ CacheStep(down)
          /\ memSess' = MemAfterGet(u, opOk)
          /\ IF NotFound(session)
               THEN /\ Done(s)
                    /\ emitted' = {ErrorEvent(s, u, "SESSION_NOT_FOUND")}
                    /\ UNCHANGED << logical, heap >>
               ELSE IF AlreadyPaused(session)
               THEN /\ Done(s)
                    /\ emitted' = {Event(s, "SESSION_PAUSED", u, session.elapsedTime, "")}
                    /\ logical' = [logical EXCEPT ![u] = PAUSED]
                    /\ UNCHANGED heap
               ELSE /\ Goto(s, "pause_write")
                    /\ hl' = [hl EXCEPT ![s].session = PausedRecord(session)]
                    /\ heap' = HeapAfterMutation(session, PausedRecord(session))
                    /\ emitted' = {}
                    /\ logical' = [logical EXCEPT ![u] = PAUSED]
  /\ UNCHANGED << redisSess, lockVars, db, timerVars, regVars, connected,
                  envVars, httpVars, tickVars, nOps, nStarted, activeSec, awaySec, lockGrant >>

\* pauseSession's write lands; the handler emits SESSION_PAUSED
PauseWrite(s) ==
  /\ pc[s] = "pause_write"
  /\ \E down \in DownChoices :
       LET u == hl[s].user
           ping == redisUp
           opOk == redisUp /\ ~down
           session == hl[s].session
       IN /\ CacheStep(down)
          /\ redisSess' = RedisAfterWrite(u, session, ping, opOk)
          /\ memSess' = MemAfterWrite(u, session, ping)
          /\ heap' = HeapAfterWrite(session, ping)
          /\ emitted' = {Event(s, "SESSION_PAUSED", u,
                                Current(session).elapsedTime, "")}
  /\ Done(s)
  /\ UNCHANGED << lockVars, db, timerVars, regVars, connected, envVars, httpVars,
                  tickVars, nOps, histVars >>

\* ----------------------------------------------------- handleSessionResume
HandleSessionResume(s, u) ==
  /\ Arrives(s)
  /\ nOps' = nOps + 1
  /\ Unauthorized(s, u) \/ Authorized(s, u, "resume_read")
  /\ UNCHANGED << redisUp, nFlaps, nDrops, storeVars, lockVars, db, timerVars, regVars,
                  connected, envVars, httpVars, tickVars, histVars >>

\* resumeSession: `if (session.status !== PAUSED) return session`
NotPaused(session) == session.status # PAUSED

\* resumeSession up to its write; a session that is not paused is returned
\* as it is, and the handler restarts the timer and emits SESSION_RESUMED
ResumeRead(s) ==
  /\ pc[s] = "resume_read"
  /\ \E down \in DownChoices :
       LET u == hl[s].user
           opOk == redisUp /\ ~down
           session == GetSession(u, opOk)
       IN /\ CacheStep(down)
          /\ memSess' = MemAfterGet(u, opOk)
          /\ IF NotFound(session)
               THEN /\ Done(s)
                    /\ emitted' = {ErrorEvent(s, u, "SESSION_NOT_FOUND")}
                    /\ UNCHANGED << logical, timerVars, heap >>
               ELSE IF NotPaused(session)
               THEN /\ Done(s)
                    /\ intervals' = IntervalsAfterStart(intervals, u)
                    /\ activeTimers' = [activeTimers EXCEPT ![u] = TRUE]
                    /\ tickDue' = NotDue(u)
                    /\ emitted' = {Event(s, "SESSION_RESUMED", u, session.elapsedTime, "")}
                    /\ logical' = [logical EXCEPT ![u] = ACTIVE]
                    /\ UNCHANGED heap
               ELSE /\ Goto(s, "resume_write")
                    /\ hl' = [hl EXCEPT ![s].session = ResumedRecord(session)]
                    /\ heap' = HeapAfterMutation(session, ResumedRecord(session))
                    /\ emitted' = {}
                    /\ logical' = [logical EXCEPT ![u] = ACTIVE]
                    /\ UNCHANGED timerVars
  /\ UNCHANGED << redisSess, lockVars, db, regVars, connected, envVars, httpVars,
                  tickVars, nOps, nStarted, activeSec, awaySec, lockGrant >>

\* resumeSession's write lands; the handler restarts the timer and emits
\* SESSION_RESUMED
ResumeWrite(s) ==
  /\ pc[s] = "resume_write"
  /\ \E down \in DownChoices :
       LET u == hl[s].user
           ping == redisUp
           opOk == redisUp /\ ~down
           session == hl[s].session
       IN /\ CacheStep(down)
          /\ redisSess' = RedisAfterWrite(u, session, ping, opOk)
          /\ memSess' = MemAfterWrite(u, session, ping)
          /\ heap' = HeapAfterWrite(session, ping)
          /\ intervals' = IntervalsAfterStart(intervals, u)
          /\ activeTimers' = [activeTimers EXCEPT ![u] = TRUE]
          /\ tickDue' = NotDue(u)
          /\ emitted' = {Event(s, "SESSION_RESUMED", u,
                                Current(session).elapsedTime, "")}
  /\ Done(s)
  /\ UNCHANGED << lockVars, db, regVars, connected, envVars, httpVars, tickVars,
                  nOps, histVars >>

\* --------------------------------------------------- persistence bridge
\* prisma.milkingSession.findFirst({where: {userId, startTime}})
FindFirst(rows, u, startTime) ==
  {r \in rows : r.userId = u /\ r.startTime = startTime}

\* an existing record reported as newly created
ExistingResultCreated(row) == [id |-> row.id, created |-> TRUE]

\* the value persistCompletedSession returns for a record found
ExistingResult(row) == [id |-> row.id, created |-> FALSE]

\* a durable store without the constraint
NoUniqueConstraint(rows, u, startTime) == FALSE

\* the durable store's unique constraint on (userId, startTime) rejects a
\* second row with the same key
UniqueViolation(rows, u, startTime) == FindFirst(rows, u, startTime) # {}

\* prisma.milkingSession.create({data: ...}); duration is
\* Math.round(elapsedTime), and elapsedTime is a whole number of seconds here
NewRow(rows, u, session) ==
  [id |-> Cardinality(rows) + 1, userId |-> u, startTime |-> session.startTime,
   endTime |-> now, duration |-> session.elapsedTime,
   elapsedTime |-> session.elapsedTime, pausedTime |-> session.totalPausedTime]

\* prisma.milkingSession.findMany({where: {userId}, orderBy: {startTime:
\* 'desc'}}): the user's rows, newest first
RECURSIVE NewestFirst(_)
NewestFirst(rows) ==
  IF rows = {} THEN << >>
  ELSE LET newest == CHOOSE r \in rows : \A q \in rows : q.startTime <= r.startTime
       IN << newest >> \o NewestFirst(rows \ {newest})

FindMany(rows, u) == NewestFirst({r \in rows : r.userId = u})

\* what the route can catch from the durable store: its own 3 s timeout
\* ('Database query timed out'), the server not reachable (P1001), the table
\* missing (42P01, or a message with 'does not exist'), and an error that is
\* none of these, such as the server closing the connection (P1017)
DbErrors ==
  { [code |-> "", timedOut |-> TRUE, doesNotExist |-> FALSE],
    [code |-> "P1001", timedOut |-> FALSE, doesNotExist |-> FALSE],
    [code |-> "42P01", timedOut |-> FALSE, doesNotExist |-> FALSE],
    [code |-> "P2021", timedOut |-> FALSE, doesNotExist |-> TRUE],
    [code |-> "P1017", timedOut |-> FALSE, doesNotExist |-> FALSE] }

\* ------------------------------------------------- GET /sessions: data
\* res.status(status).json({userId, sessions, cached})
Response(status, sessions, cached) ==
  [NoRequest EXCEPT !.status = status, !.sessions = sessions, !.cached = cached]

\* get(historyKey): the cached list, or null (here the empty list, which is
\* never cached) when the key is absent or expired or the cache does not
\* answer
HistoryGet(u) ==
  IF redisUp /\ histCache[u].expiresAt > now THEN histCache[u].sessions
                                              ELSE << >>

\* setWithTTL(historyKey, JSON.stringify(sessions), HISTORY_CACHE_TTL_SECONDS)
HistorySet(u, sessions) ==
  [histCache EXCEPT ![u] = [sessions |-> sessions,
                            expiresAt |-> now + HISTORY_CACHE_TTL_SECONDS * 1000]]

\* the route's catch (dbError): a timeout and an unavailable store are
\* answered 200 with an empty list, every other error is rethrown to the
\* outer catch, which answers 500
StoreUnavailable(dbError) ==
  \/ dbError.timedOut
  \/ dbError.doesNotExist \/ dbError.code = "42P01" \/ dbError.code = "P1001"

ErrorResponse(dbError) ==
  IF StoreUnavailable(dbError) THEN Response(200, << >>, FALSE)
                               ELSE Response(500, << >>, FALSE)

\* ------------------------------------------------------- handleSessionStop
HandleSessionStop(s, u) ==
  /\ Arrives(s)
  /\ nOps' = nOps + 1
  /\ Unauthorized(s, u) \/ Authorized(s, u, "stop_get")
  /\ UNCHANGED << redisUp, nFlaps, nDrops, storeVars, lockVars, db, timerVars, regVars,
                  connected, envVars, httpVars, tickVars, histVars >>

\* finalElapsedTime = ACTIVE ? elapsedTime + (Date.now() - lastUpdateTime) / 1000
\*                           : elapsedTime
FinalElapsedTime(session) ==
  IF session.status = ACTIVE
    THEN session.elapsedTime + (now - session.lastUpdateTime) \div 1000
    ELSE session.elapsedTime

\* getSession returns inside handleSessionStop; the final record is built
StopGetSession(s) ==
  /\ pc[s] = "stop_get"
  /\ \E down \in DownChoices :
       LET u == hl[s].user
           opOk == redisUp /\ ~down
           session == GetSession(u, opOk)
       IN /\ CacheStep(down)
          /\ memSess' = MemAfterGet(u, opOk)
          /\ IF NotFound(session)
               THEN /\ Done(s)
                    /\ emitted' = {ErrorEvent(s, u, "SESSION_NOT_FOUND")}
               ELSE /\ Goto(s, "stop_find")
                    /\ hl' = [hl EXCEPT
                         ![s].session = [session EXCEPT
                                           !.elapsedTime = FinalElapsedTime(session),
                                           !.status = COMPLETED,
                                           !.oid = 0],
                         ![s].finalElapsedTime = FinalElapsedTime(session),
                         ![s].activeRef = activeSec[u]]
                    /\ emitted' = {}
  /\ UNCHANGED << redisSess, heap, lockVars, db, timerVars, regVars, connected,
                  envVars, httpVars, tickVars, nOps, histVars >>

\* a Stop handler without its catch: the rejection escapes and nothing is sent
StopFailsUncaught(s) ==
  /\ Done(s)
  /\ emitted' = {}
  /\ UNCHANGED << db, timerVars >>

\* persistCompletedSession rethrows what the durable store throws, and
\* handleSessionStop's catch turns it into SESSION_STOP_ERROR
StopFails(s) ==
  /\ Done(s)
  /\ emitted' = {ErrorEvent(s, hl[s].user, "SESSION_STOP_ERROR")}
  /\ UNCHANGED << db, timerVars >>

\* persistCompletedSession returned a result: stopSessionTimer runs and the
\* handler suspends in deleteSession
StopPersisted(s, id, created) ==
  LET u == hl[s].user
  IN /\ Goto(s, "stop_delete")
     /\ hl' = [hl EXCEPT ![s].persistedId = id, ![s].created = created]
     /\ intervals' = IntervalsAfterStop(intervals, u)
     /\ activeTimers' = TimerStopped(activeTimers, u)
     /\ tickDue' = NotDue(u)
     /\ emitted' = {}

\* persistCompletedSession: findFirst returns
StopFindFirst(s) ==
  /\ pc[s] = "stop_find"
  /\ LET u == hl[s].user
         found == FindFirst(db, u, hl[s].session.startTime)
     IN IF ~dbUp THEN StopFails(s)
        ELSE IF found # {}
          THEN /\ \E row \in found :
                    StopPersisted(s, ExistingResult(row).id, ExistingResult(row).created)
               /\ UNCHANGED db
          ELSE /\ Goto(s, "stop_create")
               /\ emitted' = {}
               /\ UNCHANGED << hl, db, timerVars >>
  /\ UNCHANGED << redisUp, nFlaps, nDrops, storeVars, lockVars, regVars, connected,
                  envVars, httpVars, tickVars, nOps, nStarted, logical, activeSec, awaySec,
                  lockGrant >>

\* persistCompletedSession: create returns or throws
StopCreate(s) ==
  /\ pc[s] = "stop_create"
  /\ LET u == hl[s].user
         row == NewRow(db, u, hl[s].session)
     IN IF ~dbUp \/ UniqueViolation(db, u, hl[s].session.startTime)
          THEN StopFails(s)
          ELSE /\ db' = db \cup {row}
               /\ StopPersisted(s, row.id, TRUE)
  /\ UNCHANGED << redisUp, nFlaps, nDrops, storeVars, lockVars, regVars, connected,
                  envVars, httpVars, tickVars, nOps, nStarted, logical, activeSec, awaySec,
                  lockGrant >>

\* deleteSession returns: the record is removed from the cache (when it
\* answers) and from the in-memory map
StopDeleteSession(s) ==
  /\ pc[s] = "stop_delete"
  /\ \E down \in DownChoices :
       LET u == hl[s].user
           opOk == redisUp /\ ~down
       IN /\ CacheStep(down)
          /\ redisSess' = Del(redisSess, u, NoEntry, opOk)
          /\ memSess' = [memSess EXCEPT ![u] = NoMemEntry]
  /\ Goto(s, "stop_release")
  /\ emitted' = {}
  /\ UNCHANGED << heap, lockVars, db, timerVars, regVars, connected, hl, envVars, httpVars,
                  tickVars, nOps, histVars >>

\* releaseSessionLock returns; the socket is unregistered and unbound and
\* SESSION_STOPPED is emitted
StopReleaseLock(s) ==
  /\ pc[s] = "stop_release"
  /\ \E down \in DownChoices :
       LET u == hl[s].user
           opOk == redisUp /\ ~down
       IN /\ CacheStep(down)
          /\ redisLock' = Del(redisLock, u, 0, opOk)
          /\ memLock' = [memLock EXCEPT ![u] = 0]
          /\ lockGrant' = [lockGrant EXCEPT ![u] = 0]
          /\ userSockets' = Unregistered(userSockets, u, s)
          /\ sockUser' = [sockUser EXCEPT ![s] = NoUser]
          /\ intervals' = IF LastSocketLeaves(u, s)
                            THEN IntervalsAfterStop(intervals, u) ELSE intervals
          /\ activeTimers' = IF LastSocketLeaves(u, s)
                               THEN TimerStopped(activeTimers, u) ELSE activeTimers
          /\ tickDue' = IF LastSocketLeaves(u, s) THEN NotDue(u) ELSE tickDue
          /\ emitted' = {Event(s, "SESSION_STOPPED", u, hl[s].finalElapsedTime, "")}
          /\ nStarted' = [nStarted EXCEPT ![u] = 0]
          /\ logical' = [logical EXCEPT ![u] = "idle"]
  /\ Done(s)
  /\ UNCHANGED << storeVars, db, connected, envVars, httpVars, tickVars, nOps,
                  activeSec, awaySec >>

\* ------------------------------------------------------- handleSessionSync
HandleSessionSync(s, u) ==
  /\ Arrives(s)
  /\ nOps' = nOps + 1
  /\ Goto(s, "sync_get")
  /\ hl' = [hl EXCEPT ![s] = [NoLocals EXCEPT !.user = u]]
  /\ emitted' = {}
  /\ UNCHANGED << redisUp, nFlaps, nDrops, storeVars, lockVars, db, timerVars, regVars,
                  connected, envVars, httpVars, tickVars, histVars >>

\* the elapsedTime handleSessionSync and recoverSessionOnReconnect report
SyncElapsedTime(session) == session.elapsedTime

\* a sync that drops the record it has read
DropsOnRead(s) ==
  /\ redisSess' = [redisSess EXCEPT ![hl[s].user] = NoEntry]
  /\ UNCHANGED << heap, lockVars, db >>

\* handleSessionSync and recoverSessionOnReconnect call getSession and no
\* other store, lock or persistence function
ReadOnly(s) == UNCHANGED << redisSess, heap, lockVars, db >>

\* a sync that never touches the timers
TimersAfterSyncIdle(u, session) == UNCHANGED timerVars

\* the timer restarts when the session read is ACTIVE
TimersAfterSync(u, session) ==
  /\ intervals' = IF session.status = ACTIVE
                    THEN IntervalsAfterStart(intervals, u) ELSE intervals
  /\ activeTimers' = IF session.status = ACTIVE
                       THEN [activeTimers EXCEPT ![u] = TRUE] ELSE activeTimers
  /\ tickDue' = IF session.status = ACTIVE THEN NotDue(u) ELSE tickDue

\* getSession returns inside handleSessionSync: the socket is registered
\* when it is not bound to the user, and SESSION_SYNC and SESSION_STATE are
\* emitted
SyncGetSession(s) ==
  /\ pc[s] = "sync_get"
  /\ \E down \in DownChoices :
       LET u == hl[s].user
           opOk == redisUp /\ ~down
           session == GetSession(u, opOk)
       IN /\ CacheStep(down)
          /\ memSess' = MemAfterGet(u, opOk)
          /\ IF NotFound(session)
               THEN /\ emitted' = {ErrorEvent(s, u, "SESSION_NOT_FOUND")}
                    /\ UNCHANGED << timerVars, regVars >>
               ELSE /\ userSockets' = IF sockUser[s] # u
                                        THEN Registered(userSockets, u, s)
                                        ELSE userSockets
                    /\ sockUser' = [sockUser EXCEPT ![s] = u]
                    /\ TimersAfterSync(u, session)
                    /\ emitted' = {Event(s, "SESSION_SYNC", u, SyncElapsedTime(session), ""),
                                   Event(s, "SESSION_STATE", u, SyncElapsedTime(session), "")}
  /\ Done(s)
  /\ ReadOnly(s)
  /\ UNCHANGED << connected, envVars, httpVars, tickVars, nOps, histVars >>

\* ------------------------------------------- connection, recovery, disconnect
\* io.on('connection'): a new socket; with a userId in the handshake
\* recoverSessionOnReconnect starts and suspends in getSession
Connect(s, u) ==
  /\ ~connected[s]
  /\ pc[s] = "idle"
  /\ \A v \in AllUsers : s \notin userSockets[v]
  /\ nOps < MaxOps
  /\ nOps' = nOps + 1
  /\ connected' = [connected EXCEPT ![s] = TRUE]
  /\ sockUser' = [sockUser EXCEPT ![s] = NoUser]
  /\ IF u = NoUser THEN Done(s)
       ELSE /\ Goto(s, "recover_get")
            /\ hl' = [hl EXCEPT ![s] = [NoLocals EXCEPT !.user = u]]
  /\ emitted' = {}
  /\ UNCHANGED << redisUp, nFlaps, nDrops, storeVars, lockVars, db, timerVars,
                  userSockets, envVars, httpVars, tickVars, histVars >>

\* a recovery that answers as handleSessionSync does
RecoveryEventsAsSync(s, u, session) ==
  {Event(s, "SESSION_SYNC", u, SyncElapsedTime(session), ""),
   Event(s, "SESSION_STATE", u, SyncElapsedTime(session), "")}

\* what recoverSessionOnReconnect sends for a live session: SESSION_STATE
RecoveryEvents(s, u, session) ==
  {Event(s, "SESSION_STATE", u, SyncElapsedTime(session), "")}

\* getSession returns inside recoverSessionOnReconnect
RecoverGetSession(s) ==
  /\ pc[s] = "recover_get"
  /\ \E down \in DownChoices :
       LET u == hl[s].user
           opOk == redisUp /\ ~down
           session == GetSession(u, opOk)
       IN /\ CacheStep(down)
          /\ memSess' = MemAfterGet(u, opOk)
          /\ IF ~Exists(session)
               THEN /\ emitted' = {}
                    /\ UNCHANGED << timerVars, regVars >>
               ELSE /\ userSockets' = Registered(userSockets, u, s)
                    /\ sockUser' = [sockUser EXCEPT ![s] = u]
                    /\ TimersAfterSync(u, session)
                    /\ emitted' = RecoveryEvents(s, u, session)
  /\ Done(s)
  /\ ReadOnly(s)
  /\ UNCHANGED << connected, envVars, httpVars, tickVars, nOps, histVars >>

\* a disconnect that also deletes the live session of the connection's user
DisconnectEndsSession(s) ==
  /\ connected[s]
  /\ connected' = [connected EXCEPT ![s] = FALSE]
  /\ LET u == sockUser[s]
     IN IF u = NoUser
          THEN UNCHANGED << userSockets, timerVars >>
          ELSE /\ userSockets' = Unregistered(userSockets, u, s)
               /\ intervals' = IF LastSocketLeaves(u, s)
                                 THEN IntervalsAfterStop(intervals, u) ELSE intervals
               /\ activeTimers' = IF LastSocketLeaves(u, s)
                                    THEN TimerStopped(activeTimers, u) ELSE activeTimers
               /\ tickDue' = IF LastSocketLeaves(u, s) THEN NotDue(u) ELSE tickDue
  /\ emitted' = {}
  /\ redisSess' = [u \in AllUsers |-> IF u = sockUser[s] THEN NoEntry ELSE redisSess[u]]
  /\ memSess' = [u \in AllUsers |-> IF u = sockUser[s] THEN NoMemEntry ELSE memSess[u]]
  /\ UNCHANGED << redisUp, nFlaps, nDrops, heap, lockVars, db, sockUser, pc, hl,
                  envVars, httpVars, tickVars, nOps, histVars >>

\* socket.on('disconnect'): unregisterUserSocket for the bound user, which
\* stops the user's timer when the set becomes empty
Disconnect(s) ==
  /\ connected[s]
  /\ connected' = [connected EXCEPT ![s] = FALSE]
  /\ LET u == sockUser[s]
     IN IF u = NoUser
          THEN UNCHANGED << userSockets, timerVars >>
          ELSE /\ userSockets' = Unregistered(userSockets, u, s)
               /\ intervals' = IF LastSocketLeaves(u, s)
                                 THEN IntervalsAfterStop(intervals, u) ELSE intervals
               /\ activeTimers' = IF LastSocketLeaves(u, s)
                                    THEN TimerStopped(activeTimers, u) ELSE activeTimers
               /\ tickDue' = IF LastSocketLeaves(u, s) THEN NotDue(u) ELSE tickDue
  /\ emitted' = {}
  /\ UNCHANGED << redisUp, nFlaps, nDrops, storeVars, lockVars, db, sockUser, pc, hl,
                  envVars, httpVars, tickVars, nOps, histVars >>

\* ---------------------------------------------------------- GET /sessions
\* the request reaches the route: a missing userId is answered 400, else the
\* handler suspends in the cache lookup
GetSessions(u) ==
  /\ http.pc = "idle"
  /\ nOps < MaxOps
  /\ nOps' = nOps + 1
  /\ http' = IF u = NoUser
               THEN Response(400, << >>, FALSE)
               ELSE [NoRequest EXCEPT !.pc = "cache", !.user = u]
  /\ emitted' = {}
  /\ UNCHANGED << redisUp, nFlaps, nDrops, storeVars, lockVars, db, histCache,
                  timerVars, regVars, connected, pc, hl, envVars, tickVars,
                  histVars >>

\* get(historyKey) returns, or its 1.5 s timeout resolves null: a cached
\* list is answered as it is
GetSessionsCache ==
  /\ http.pc = "cache"
  /\ LET cachedData == HistoryGet(http.user)
     IN http' = IF cachedData # << >>
                  THEN Response(200, cachedData, TRUE)
                  ELSE [http EXCEPT !.pc = "db"]
  /\ emitted' = {}
  /\ UNCHANGED << redisUp, nFlaps, nDrops, storeVars, lockVars, db, histCache,
                  timerVars, regVars, connected, pc, hl, envVars, tickVars, nOps,
                  histVars >>

\* prisma.milkingSession.findMany returns, throws, or its 3 s timeout
\* rejects; a list that is not empty is put into the cache
GetSessionsDb ==
  /\ http.pc = "db"
  /\ IF dbUp
       THEN LET sessions == FindMany(db, http.user)
            IN /\ http' = Response(200, sessions, FALSE)
               /\ histCache' = IF sessions # << >> /\ redisUp
                                 THEN HistorySet(http.user, sessions)
                                 ELSE histCache
       ELSE /\ \E dbError \in DbErrors : http' = ErrorResponse(dbError)
            /\ UNCHANGED histCache
  /\ emitted' = {}
  /\ UNCHANGED << redisUp, nFlaps, nDrops, storeVars, lockVars, db,
                  timerVars, regVars, connected, pc, hl, envVars, tickVars, nOps,
                  histVars >>

\* ------------------------------------------------------------ tick timer
\* SESSION_TICK goes to every registered socket io.sockets.sockets still holds
TickEvents(u, session) ==
  {Event(s, "SESSION_TICK", u, session.elapsedTime, session.status) :
     s \in {x \in userSockets[u] : connected[x]}}

\* the interval fires: the callback runs up to `await getSession`
TickFire(u) ==
  /\ intervals[u] > 0
  /\ tickDue[u]
  /\ tpc[u] = "idle"
  /\ tpc' = [tpc EXCEPT ![u] = "tick_get"]
  /\ tickDue' = NotDue(u)
  /\ emitted' = {}
  /\ UNCHANGED << redisUp, nFlaps, nDrops, storeVars, lockVars, db, activeTimers,
                  intervals, regVars, connected, pc, hl, tl, envVars, httpVars, nOps,
                  histVars >>

\* a callback that finds no session and leaves its interval running
TickKeepsRunning(u) == UNCHANGED timerVars

\* if (!session) stopSessionTimer(userId)
TickFindsNoSession(u) ==
  /\ intervals' = IntervalsAfterStop(intervals, u)
  /\ activeTimers' = TimerStopped(activeTimers, u)
  /\ tickDue' = NotDue(u)

\* getSession returns in the callback: no session stops the timer, a
\* session that is not ACTIVE ends the callback, an ACTIVE one calls
\* updateElapsedTime
TickGetSession(u) ==
  /\ tpc[u] = "tick_get"
  /\ \E down \in DownChoices :
       LET opOk == redisUp /\ ~down
           session == GetSession(u, opOk)
       IN /\ CacheStep(down)
          /\ memSess' = MemAfterGet(u, opOk)
          /\ IF ~Exists(session)
               THEN /\ TickFindsNoSession(u)
                    /\ tpc' = [tpc EXCEPT ![u] = "idle"]
               ELSE /\ UNCHANGED timerVars
                    /\ tpc' = [tpc EXCEPT ![u] =
                                 IF session.status = ACTIVE THEN "tick_update_read"
                                                            ELSE "idle"]
  /\ emitted' = {}
  /\ UNCHANGED << redisSess, heap, lockVars, db, regVars, connected, pc, hl, tl,
                  envVars, httpVars, nOps, histVars >>

\* updateElapsedTime up to its write: getSession returns; a missing session
\* yields null, a PAUSED one is returned unchanged (and broadcast), an
\* ACTIVE one is reconciled at the current instant
TickUpdateRead(u) ==
  /\ tpc[u] = "tick_update_read"
  /\ \E down \in DownChoices :
       LET opOk == redisUp /\ ~down
           session == GetSession(u, opOk)
       IN /\ CacheStep(down)
          /\ memSess' = MemAfterGet(u, opOk)
          /\ IF ~Exists(session)
               THEN /\ tpc' = [tpc EXCEPT ![u] = "idle"]
                    /\ emitted' = {}
                    /\ UNCHANGED << tl, heap >>
               ELSE IF session.status = PAUSED
               THEN /\ tpc' = [tpc EXCEPT ![u] = "idle"]
                    /\ emitted' = TickEvents(u, session)
                    /\ UNCHANGED << tl, heap >>
               ELSE /\ tpc' = [tpc EXCEPT ![u] = "tick_update_write"]
                    /\ tl' = [tl EXCEPT ![u] = Reconciled(session)]
                    /\ heap' = HeapAfterMutation(session, Reconciled(session))
                    /\ emitted' = {}
  /\ UNCHANGED << redisSess, lockVars, db, timerVars, regVars, connected, pc,
                  hl, envVars, httpVars, nOps, histVars >>

\* updateElapsedTime's write lands with the full TTL; the callback
\* broadcasts SESSION_TICK
TickUpdateWrite(u) ==
  /\ tpc[u] = "tick_update_write"
  /\ \E down \in DownChoices :
       LET ping == redisUp
           opOk == redisUp /\ ~down
       IN /\ CacheStep(down)
          /\ redisSess' = RedisAfterWrite(u, tl[u], ping, opOk)
          /\ memSess' = MemAfterWrite(u, tl[u], ping)
          /\ heap' = HeapAfterWrite(tl[u], ping)
  /\ tpc' = [tpc EXCEPT ![u] = "idle"]
  /\ tl' = [tl EXCEPT ![u] = NoSession]
  /\ emitted' = TickEvents(u, Current(tl[u]))
  /\ UNCHANGED << lockVars, db, timerVars, regVars, connected, pc, hl,
                  envVars, httpVars, nOps, histVars >>

\* ----------------------------------------------------------- environment
Quiescent == (\A s \in Sockets : pc[s] = "idle") /\ (\A u \in AllUsers : tpc[u] = "idle")

\* an interval that has elapsed fires before the clock moves on
TimersServed == \A u \in AllUsers : ~(intervals[u] > 0 /\ tickDue[u])

\* Date.now() moves on by d; every running interval becomes due
ClockMoves(d) ==
  /\ nClock < MaxClockSteps
  /\ TimersServed
  /\ nClock' = nClock + 1
  /\ now' = now + d
  /\ tickDue' = [u \in AllUsers |-> intervals[u] > 0]
  /\ activeSec' = [u \in AllUsers |->
                     IF logical[u] = ACTIVE THEN activeSec[u] + d \div 1000
                                            ELSE activeSec[u]]
  /\ awaySec' = [u \in AllUsers |->
                   IF logical[u] = ACTIVE /\ userSockets[u] = {}
                     THEN awaySec[u] + d \div 1000
                     ELSE awaySec[u]]
  /\ emitted' = {}
  /\ UNCHANGED << redisUp, nFlaps, nDrops, dbUp, nDbFlaps, storeVars, lockVars, db,
                  httpVars, activeTimers, intervals, regVars, connected, pc, hl,
                  tickVars, nOps, nStarted, logical, lockGrant >>

\* the clock advances.  Store calls return well within the clock's
\* granularity of one second, so the clock moves only while no handler or
\* callback is suspended.
Advance(d) == Quiescent /\ ClockMoves(d)

\* a store call that takes longer (the cache client's calls are bounded only
\* by timeouts of 1.5 to 2 s): the clock advances while a handler or a tick
\* callback is suspended in it
SlowCall(d) == ~Quiescent /\ ClockMoves(d)

\* the cache becomes unreachable or reachable between store calls
CacheFlap ==
  /\ nFlaps < MaxFlaps
  /\ nFlaps' = nFlaps + 1
  /\ redisUp' = ~redisUp
  /\ emitted' = {}
  /\ UNCHANGED << nDrops, storeVars, lockVars, db, timerVars, regVars, connected, pc,
                  hl, tickVars, envVars, httpVars, nOps, histVars >>

\* the durable store becomes unreachable or reachable
DbFlap ==
  /\ nDbFlaps < MaxDbFlaps
  /\ nDbFlaps' = nDbFlaps + 1
  /\ dbUp' = ~dbUp
  /\ emitted' = {}
  /\ UNCHANGED << redisUp, nFlaps, nDrops, now, nClock, storeVars, lockVars, db,
                  httpVars, timerVars, regVars, connected, pc, hl, tickVars, nOps,
                  histVars >>

\* ------------------------------------------------------- specification
StartStep(s) ==
  \/ StartAcquireLock(s) \/ StartGetSession(s) \/ StartReleaseLock(s)
  \/ StartCreateSession(s)

PauseStep(s) == PauseRead(s) \/ PauseWrite(s)

ResumeStep(s) == ResumeRead(s) \/ ResumeWrite(s)

StopStep(s) ==
  \/ StopGetSession(s) \/ StopFindFirst(s) \/ StopCreate(s)
  \/ StopDeleteSession(s) \/ StopReleaseLock(s)

HandlerStep(s) ==
  \/ StartStep(s) \/ PauseStep(s) \/ ResumeStep(s) \/ StopStep(s)
  \/ SyncGetSession(s)
  \/ RecoverGetSession(s)

ClientEvent(s, u) ==
  \/ HandleSessionStart(s, u)
  \/ HandleSessionPause(s, u)
  \/ HandleSessionResume(s, u)
  \/ HandleSessionStop(s, u)
  \/ HandleSessionSync(s, u)

TickStep(u) ==
  \/ TickFire(u) \/ TickGetSession(u) \/ TickUpdateRead(u) \/ TickUpdateWrite(u)

HistoryStep == GetSessionsCache \/ GetSessionsDb

\* Every behaviour: any event on any connection, ticks, the clock, the cache
\* and the durable store failing and recovering.
Next ==
  \/ \E s \in Sockets, u \in Users : ClientEvent(s, u)
  \/ \E s \in Sockets : HandlerStep(s)
  \/ \E s \in Sockets, u \in Users \cup {NoUser} : Connect(s, u)
  \/ \E s \in Sockets : Disconnect(s)
  \/ \E u \in Users : TickStep(u)
  \/ \E u \in Users \cup {NoUser} : GetSessions(u)
  \/ HistoryStep
  \/ \E d \in Delays : Advance(d)
  \/ CacheFlap
  \/ DbFlap

Spec == Init /\ [][Next]_vars

\* The scenarios below are Spec restricted to the events of one situation.
Solo == {"s1"}

\* One connection driving one session through any events, disconnecting and
\* reconnecting, with the user's timer and the clock; the cache and the
\* durable store stay reachable.
NextLifecycle ==
  \/ \E s \in Solo, u \in Users : ClientEvent(s, u)
  \/ \E s \in Solo : HandlerStep(s)
  \/ \E s \in Solo, u \in Users : Connect(s, u)
  \/ \E s \in Solo : Disconnect(s)
  \/ \E u \in Users : TickStep(u)
  \/ Advance(TICK_INTERVAL_MS)

SpecLifecycle == InitReliable /\ [][NextLifecycle]_vars

\* One client that follows the protocol Start, (Pause, Resume)*, [Pause],
\* Stop: it sends the event its last-known state allows, and ticks fire in
\* between.
NextTimed ==
  \/ \E s \in Solo, u \in Users : logical[u] = "idle" /\ HandleSessionStart(s, u)
  \/ \E s \in Solo, u \in Users : logical[u] = ACTIVE /\ HandleSessionPause(s, u)
  \/ \E s \in Solo, u \in Users : logical[u] = PAUSED /\ HandleSessionResume(s, u)
  \/ \E s \in Solo, u \in Users : logical[u] # "idle" /\ HandleSessionStop(s, u)
  \/ \E s \in Solo : StartStep(s) \/ PauseStep(s) \/ ResumeStep(s) \/ StopStep(s)
  \/ \E u \in Users : TickStep(u)
  \/ Advance(TICK_INTERVAL_MS)

SpecTimed == InitReliable /\ [][NextTimed]_vars

\* The same client while the cache is unreachable for the whole run: every
\* store and lock call is served by the in-memory fallbacks.
SpecCacheDown == InitCacheDown /\ [][NextTimed]_vars

\* Starts from two connections while the cache fails and recovers.
NextStartRace ==
  \/ \E s \in Sockets, u \in Users : HandleSessionStart(s, u)
  \/ \E s \in Sockets : StartStep(s)
  \/ \E u \in Users : TickStep(u)
  \/ Advance(TICK_INTERVAL_MS)
  \/ CacheFlap

SpecStartRace == InitCacheFaults /\ [][NextStartRace]_vars

\* Two connections bound to one session (Start on one, Sync on the other)
\* and their Stops, while the durable store fails and recovers.
NextStop ==
  \/ \E s \in Sockets, u \in Users : HandleSessionStart(s, u)
  \/ \E s \in Sockets, u \in Users : HandleSessionSync(s, u)
  \/ \E s \in Sockets, u \in Users : HandleSessionStop(s, u)
  \/ \E s \in Sockets : StartStep(s) \/ StopStep(s) \/ SyncGetSession(s)
  \/ \E u \in Users : TickStep(u)
  \/ Advance(TICK_INTERVAL_MS)
  \/ DbFlap

SpecStop == InitDbFaults /\ [][NextStop]_vars

\* One connection and one session that is paused, resumed and synced while
\* ticks fire and store calls may take longer than a second.  No Stop: the
\* lock of the one Start stays held, so no Start finds a session to report.
NextSlowStore ==
  \/ \E s \in Solo, u \in Users :
       \/ HandleSessionStart(s, u) \/ HandleSessionPause(s, u)
       \/ HandleSessionResume(s, u) \/ HandleSessionSync(s, u)
  \/ \E s \in Solo :
       \/ StartAcquireLock(s) \/ StartGetSession(s) \/ StartCreateSession(s)
       \/ PauseStep(s) \/ ResumeStep(s) \/ SyncGetSession(s)
  \/ \E u \in Users : TickStep(u)
  \/ Advance(TICK_INTERVAL_MS)
  \/ SlowCall(TICK_INTERVAL_MS)

SpecSlowStore == InitReliable /\ [][NextSlowStore]_vars

\* Two users: one connection sends any event naming either user, the other
\* connection starts sessions; the clock moves by a lock TTL.
NextTwoUsers ==
  \/ \E s \in Solo, u \in AllUsers : ClientEvent(s, u)
  \/ \E s \in Sockets \ Solo, u \in AllUsers : HandleSessionStart(s, u)
  \/ \E s \in Sockets :
       \/ StartStep(s) \/ PauseStep(s) \/ ResumeStep(s) \/ StopStep(s)
       \/ SyncGetSession(s)
  \/ Advance(DEFAULT_LOCK_TTL_SECONDS * 1000)

SpecTwoUsers == InitReliable /\ [][NextTwoUsers]_vars

\* One connection starting and stopping sessions and GET /sessions requests,
\* while the durable store fails and recovers and the cached history expires.
NextHistory ==
  \/ \E s \in Solo, u \in Users : HandleSessionStart(s, u) \/ HandleSessionStop(s, u)
  \/ \E s \in Solo : StartStep(s) \/ StopStep(s)
  \/ \E u \in Users \cup {NoUser} : GetSessions(u)
  \/ HistoryStep
  \/ Advance(HISTORY_CACHE_TTL_SECONDS * 1000)
  \/ DbFlap

SpecHistory == InitDbFaults /\ [][NextHistory]_vars

\* A session started, paused and stopped on one connection and synced from
\* the other, with the user's timer; the clock moves by a tick or by a whole
\* session TTL.  Store calls return and due intervals fire (weak fairness);
\* nothing obliges a client to send an event.
NextOrphanTimer ==
  \/ \E s \in Solo, u \in Users :
       \/ HandleSessionStart(s, u) \/ HandleSessionPause(s, u)
       \/ HandleSessionStop(s, u)
  \/ \E s \in Sockets \ Solo, u \in Users : HandleSessionSync(s, u)
  \/ \E s \in Sockets :
       \/ StartStep(s) \/ PauseStep(s) \/ StopStep(s) \/ SyncGetSession(s)
  \/ \E u \in Users : TickStep(u)
  \/ Advance(TICK_INTERVAL_MS)
  \/ Advance(DEFAULT_SESSION_TTL_SECONDS * 1000)

FairOrphanTimer ==
  /\ \A s \in Sockets :
       WF_vars(StartStep(s) \/ PauseStep(s) \/ StopStep(s) \/ SyncGetSession(s))
  /\ \A u \in Users : WF_vars(TickStep(u))
  /\ WF_vars(Advance(TICK_INTERVAL_MS))

SpecOrphanTimer == InitReliable /\ [][NextOrphanTimer]_vars /\ FairOrphanTimer

\* One connection that names either user in its Starts and Syncs, drops and
\* reconnects (with or without a userId in the handshake), with both users'
\* timers.  There is no Stop, so a lock once taken stays held and no Start
\* finds a session to report.
NextRebind ==
  \/ \E s \in Solo, u \in AllUsers : HandleSessionStart(s, u) \/ HandleSessionSync(s, u)
  \/ \E s \in Solo, u \in AllUsers \cup {NoUser} : Connect(s, u)
  \/ \E s \in Solo : Disconnect(s)
  \/ \E s \in Solo :
       \/ StartAcquireLock(s) \/ StartGetSession(s) \/ StartCreateSession(s)
       \/ SyncGetSession(s) \/ RecoverGetSession(s)
  \/ \E u \in AllUsers : TickStep(u)
  \/ Advance(TICK_INTERVAL_MS)

SpecRebind == InitReliable /\ [][NextRebind]_vars

\* a long time passes while no interval is running, so that no callback
\* fires in between
AdvanceUntimed(d) == (\A u \in AllUsers : intervals[u] = 0) /\ Advance(d)

\* One connection that starts a session, drops and comes back (with the
\* userId in its handshake) or syncs, with the user's timer; the connection
\* may stay away for a whole session TTL.  There is no Stop, so the lock of a
\* Start stays held until it expires.
NextAway ==
  \/ \E s \in Solo, u \in Users : HandleSessionStart(s, u) \/ HandleSessionSync(s, u)
  \/ \E s \in Solo, u \in Users : Connect(s, u)
  \/ \E s \in Solo : Disconnect(s)
  \/ \E s \in Solo :
       \/ StartAcquireLock(s) \/ StartGetSession(s) \/ StartCreateSession(s)
       \/ SyncGetSession(s) \/ RecoverGetSession(s)
  \/ \E u \in Users : TickStep(u)
  \/ Advance(TICK_INTERVAL_MS)
  \/ AdvanceUntimed(DEFAULT_SESSION_TTL_SECONDS * 1000)

SpecAway == InitReliable /\ [][NextAway]_vars

\* Two users on a connection each.  The first user's client follows the
\* protocol and may sync its running session; the second user's client
\* starts a session; both users' timers fire.
NextIsolation ==
  \/ \E s \in Solo, u \in Users : logical[u] = "idle" /\ HandleSessionStart(s, u)
  \/ \E s \in Solo, u \in Users : logical[u] = ACTIVE /\ HandleSessionPause(s, u)
  \/ \E s \in Solo, u \in Users : logical[u] = PAUSED /\ HandleSessionResume(s, u)
  \/ \E s \in Solo, u \in Users : logical[u] # "idle" /\ HandleSessionStop(s, u)
  \/ \E s \in Solo, u \in Users : logical[u] # "idle" /\ HandleSessionSync(s, u)
  \/ \E s \in Sockets \ Solo, u \in AllUsers \ Users :
       logical[u] = "idle" /\ HandleSessionStart(s, u)
  \/ \E s \in Sockets :
       \/ StartStep(s) \/ PauseStep(s) \/ ResumeStep(s) \/ StopStep(s)
       \/ SyncGetSession(s)
  \/ \E u \in AllUsers : TickStep(u)
  \/ Advance(TICK_INTERVAL_MS)

SpecIsolation == InitReliable /\ [][NextIsolation]_vars

\* Two devices of one user: the first starts and stops the session, the
\* second syncs (which binds it) and pauses, resumes and stops, with the
\* user's timer.  A lock once
\* taken is held until a Stop releases it together with the session, so no
\* Start finds a session to report.
NextTwoDevices ==
  \/ \E s \in Solo, u \in Users : HandleSessionStart(s, u) \/ HandleSessionStop(s, u)
  \/ \E s \in Sockets \ Solo, u \in Users :
       \/ HandleSessionSync(s, u) \/ HandleSessionPause(s, u)
       \/ HandleSessionResume(s, u) \/ HandleSessionStop(s, u)
  \/ \E s \in Sockets :
       \/ StartAcquireLock(s) \/ StartGetSession(s) \/ StartCreateSession(s)
       \/ PauseStep(s) \/ ResumeStep(s) \/ StopStep(s) \/ SyncGetSession(s)
  \/ \E u \in Users : TickStep(u)
  \/ Advance(TICK_INTERVAL_MS)

SpecTwoDevices == InitReliable /\ [][NextTwoDevices]_vars

\* One connection starting and stopping sessions of a user who has a
\* session on record, and GET /sessions requests, which are answered before
\* the clock moves on.  A lock once taken is held until the Stop that deletes
\* the session, so no Start finds a session to report.
NextHistoryAfterStop ==
  \/ \E s \in Solo, u \in Users : HandleSessionStart(s, u) \/ HandleSessionStop(s, u)
  \/ \E s \in Solo :
       \/ StartAcquireLock(s) \/ StartGetSession(s) \/ StartCreateSession(s)
       \/ StopStep(s)
  \/ \E u \in Users : TickStep(u)
  \/ \E u \in Users : GetSessions(u)
  \/ HistoryStep
  \/ http.pc = "idle" /\ Advance(TICK_INTERVAL_MS)

SpecHistoryAfterStop == InitWithHistory /\ [][NextHistoryAfterStop]_vars

\* Two devices bound to one session (Start on the first, Sync on the second)
\* that both stop it, and the Start of the next session; a store call may
\* take longer than a second.  The lock is free only when no session exists,
\* so no Start finds a session to report.
NextStopRace ==
  \/ \E s \in Solo, u \in Users : HandleSessionStart(s, u) \/ HandleSessionStop(s, u)
  \/ \E s \in Sockets \ Solo, u \in Users :
       HandleSessionSync(s, u) \/ HandleSessionStop(s, u)
  \/ \E s \in Sockets :
       \/ StartAcquireLock(s) \/ StartGetSession(s) \/ StartCreateSession(s)
       \/ StopStep(s) \/ SyncGetSession(s)
  \/ Advance(TICK_INTERVAL_MS)
  \/ SlowCall(TICK_INTERVAL_MS)

SpecStopRace == InitStopRace /\ [][NextStopRace]_vars

\* Starts from one connection, one after the other, over a time in which a
\* lock expires while the cache fails and recovers between store calls.
NextLockOutage ==
  \/ \E s \in Solo, u \in Users : HandleSessionStart(s, u)
  \/ \E s \in Solo : StartStep(s)
  \/ Advance(DEFAULT_LOCK_TTL_SECONDS * 1000)
  \/ CacheFlap

SpecLockOutage == InitCacheFaults /\ [][NextLockOutage]_vars

\* ----------------------------------------------------------------- claims
\* live session records of the user, the cache and the in-memory map counted
\* together
LiveRecords(u) ==
  (IF RedisLive(redisSess[u]) THEN 1 ELSE 0)
  + (IF MemHolds(memSess[u]) /\ ~MemExpired(memSess[u]) THEN 1 ELSE 0)

\* C1: Starts for one user from any connections, with no Stop in between,
\* emit SESSION_STARTED at most once in total (every other Start is answered
\* SESSION_EXISTS or SESSION_LOCK_FAILED).
C1_OneSessionStarted == \A u \in Users : nStarted[u] <= 1

\* C2: in every reachable state the cache and the in-memory fallback map
\* together hold at most one live session record of a user.
C2_OneLiveRecord == \A u \in Users : LiveRecords(u) <= 1

\* C3: an acquire returns true only when no earlier grant for the user is
\* still unreleased and unexpired, whichever of the cache and the in-memory
\* fallback serves the call.
C3_LockMutualExclusion ==
  [][\A s \in Sockets :
       (pc[s] = "start_acquire" /\ pc'[s] = "start_get")
         => lockGrant[hl[s].user] <= now]_vars

\* C4: the totalElapsedTime carried by SESSION_STOPPED equals the clock time
\* during which the session was Active, for a client following Start,
\* (Pause, Resume)*, [Pause], Stop with ticks firing in between.
C4_StoppedElapsedIsActiveTime ==
  [][\A e \in emitted' :
       e.type = "SESSION_STOPPED"
         => e.elapsedTime = hl[e.sock].activeRef]_vars

\* C5: a Stop whose persistence step finds the durable store unreachable goes
\* on to its cleanup (timer stop, record deletion, lock release,
\* SESSION_STOPPED) and emits no SESSION_STOP_ERROR.
C5_StopSurvivesStoreOutage ==
  [][\A s \in Sockets :
       (pc[s] \in {"stop_find", "stop_create"} /\ pc'[s] # pc[s] /\ ~dbUp)
         => /\ pc'[s] = "stop_delete"
            /\ ErrorEvent(s, hl[s].user, "SESSION_STOP_ERROR") \notin emitted']_vars

\* C6: the durable store holds at most one record per (userId, startTime),
\* whatever the interleaving of Stops.
C6_OneRecordPerKey ==
  \A r1 \in db, r2 \in db :
    (r1.userId = r2.userId /\ r1.startTime = r2.startTime) => r1 = r2

\* C6 witness: one connection's Stop has inserted the record while the other
\* connection's Stop, past its lookup, is about to insert the same key.
C6_ConcurrentStops ==
  \E s1 \in Sockets, s2 \in Sockets :
    /\ s1 # s2
    /\ pc[s1] = "stop_delete" /\ hl[s1].created
    /\ pc[s2] = "stop_create"
    /\ hl[s2].user = hl[s1].user
    /\ hl[s2].session.startTime = hl[s1].session.startTime
    /\ FindFirst(db, hl[s1].user, hl[s1].session.startTime) # {}

\* C7: a persist that finds no record of its (userId, startTime) returns
\* created = true and leaves exactly one; a persist that follows it with the
\* same key returns that record's id with created = false and leaves the
\* stored records unchanged.
C7_PersistIdempotent ==
  [][\A s \in Sockets :
       (pc[s] \in {"stop_find", "stop_create"} /\ pc'[s] = "stop_delete")
         => LET before == FindFirst(db, hl[s].user, hl[s].session.startTime)
                after == FindFirst(db', hl[s].user, hl[s].session.startTime)
            IN IF before = {}
                 THEN /\ hl'[s].created
                      /\ Cardinality(after) = 1
                      /\ \A r \in after : r.id = hl'[s].persistedId
                 ELSE /\ ~hl'[s].created
                      /\ db' = db
                      /\ \E r \in before : r.id = hl'[s].persistedId]_vars

\* C7 witness: a second persist of a key has returned the existing id.
C7_SecondPersistReturned ==
  \E s \in Sockets :
    /\ pc[s] = "stop_delete" /\ ~hl[s].created
    /\ \E r \in db : /\ r.id = hl[s].persistedId
                     /\ r.userId = hl[s].user
                     /\ r.startTime = hl[s].session.startTime

\* C8: Pause on a Paused session and Resume on an Active session leave the
\* stored record unchanged and answer SESSION_PAUSED / SESSION_RESUMED with
\* the record's elapsedTime, without an error event.
C8_NoOpPauseResume ==
  [][\A s \in Sockets :
       LET u == hl[s].user
           session == GetSession(u, redisUp)
       IN /\ (pc[s] = "pause_read" /\ pc'[s] # "pause_read"
                /\ session.status = PAUSED)
               => /\ pc'[s] = "idle"
                  /\ UNCHANGED storeVars
                  /\ emitted' = {Event(s, "SESSION_PAUSED", u, session.elapsedTime, "")}
          /\ (pc[s] = "resume_read" /\ pc'[s] # "resume_read"
                /\ session.status = ACTIVE)
               => /\ pc'[s] = "idle"
                  /\ UNCHANGED storeVars
                  /\ emitted' = {Event(s, "SESSION_RESUMED", u, session.elapsedTime, "")}]_vars

\* C8 witness: a Pause is about to read a session paused at an earlier instant.
C8_PauseOnPaused ==
  \E s \in Sockets :
    /\ pc[s] = "pause_read"
    /\ GetSession(hl[s].user, redisUp).status = PAUSED
    /\ GetSession(hl[s].user, redisUp).pausedAt < now

C10_SyncReportsActiveTime ==
  [][\A s \in Sockets :
       (pc[s] = "sync_get" /\ pc'[s] = "idle"
          /\ logical[hl[s].user] = ACTIVE
          /\ tpc[hl[s].user] = "idle" /\ ~tickDue[hl[s].user])
         => \A e \in emitted' :
              (e.type = "SESSION_SYNC" /\ GetSession(e.user, redisUp).status = ACTIVE)
                => activeSec[e.user] - e.elapsedTime <= TICK_INTERVAL_MS \div 1000]_vars

\* C11: with the cache unreachable for the whole run, every Start, Pause,
\* Resume and Stop of a client following the protocol is answered by its
\* success event and never by an error event, and the totalElapsedTime of
\* SESSION_STOPPED equals the clock time the session was Active.
C11_FallbackLifecycle ==
  [][\A e \in emitted' :
       /\ e.type # "error"
       /\ e.type = "SESSION_STOPPED" => e.elapsedTime = hl[e.sock].activeRef]_vars

\* C12: a Pause, Resume or Stop naming user u on a connection that is not
\* bound to u is answered by one error event with code UNAUTHORIZED on that
\* connection and changes neither the session records, the locks, the
\* registry, the timers nor the durable store.
C12_UnauthorizedChangesNothing ==
  [][\A s \in Sockets, u \in AllUsers :
       (/\ sockUser[s] # u
        /\ \/ HandleSessionPause(s, u)
           \/ HandleSessionResume(s, u)
           \/ HandleSessionStop(s, u))
         => /\ emitted' = {ErrorEvent(s, u, "UNAUTHORIZED")}
            /\ pc'[s] = "idle"
            /\ UNCHANGED << storeVars, lockVars, regVars, timerVars, db >>]_vars

\* C12 witness: a connection bound to one user was just refused an event
\* naming another user, who has a live session.
C12_RefusedForOtherUser ==
  \E s \in Sockets, u \in AllUsers :
    /\ emitted = {ErrorEvent(s, u, "UNAUTHORIZED")}
    /\ sockUser[s] \notin {u, NoUser}
    /\ Exists(GetSession(u, redisUp))

\* the handler step that makes a Pause, Resume or Stop take effect on the
\* session record of the user it names
Transition(s) ==
  /\ pc[s] \in {"pause_write", "resume_write", "stop_delete"}
  /\ pc'[s] # pc[s]

\* C13 (as stated): a connection that is registered for user A never pauses,
\* resumes, stops or deletes the session record of another user B.
C13_OnlyOwnUser ==
  [][\A s \in Sockets :
       Transition(s) => \A v \in AllUsers \ {hl[s].user} : s \notin userSockets[v]]_vars

\* C13 (amended): a Pause, Resume or Stop takes effect on user B's record
\* only on a connection whose binding socket.data.userId is B when the event
\* is handled; a Start or a Sync naming B makes B the binding of any
\* connection, whichever user it was bound to before.
C13_BoundWhenHandled ==
  [][\A s \in Sockets : Transition(s) => sockUser[s] = hl[s].user]_vars

\* C13 witness: a connection still registered for another user has just
\* stopped this user's session.
C13_StoppedByRebound ==
  \E e \in emitted :
    /\ e.type = "SESSION_STOPPED"
    /\ \E v \in AllUsers \ {e.user} : e.sock \in userSockets[v]

\* C14: while one session lives, the elapsedTime of its record in the live
\* store never decreases, whatever the interleaving of tick firings with
\* Pause, Resume and Sync handlers.
C14_ElapsedNeverDecreases ==
  [][\A u \in Users :
       LET before == GetSession(u, redisUp)
           after == GetSession(u, redisUp)'
       IN (Exists(before) /\ Exists(after) /\ after.startTime = before.startTime)
            => after.elapsedTime >= before.elapsedTime]_vars

\* C15: while the stored status is Paused, no step of a tick firing and no
\* Sync changes the stored elapsedTime or lastUpdateTime, and no SESSION_TICK
\* is sent.
C15_PausedTimeFrozen ==
  [][\A u \in Users :
       LET before == GetSession(u, redisUp)
           after == GetSession(u, redisUp)'
       IN (/\ before.status = PAUSED
           /\ TickStep(u) \/ \E s \in Sockets : SyncGetSession(s))
            => /\ Exists(after) => /\ after.elapsedTime = before.elapsedTime
                                   /\ after.lastUpdateTime = before.lastUpdateTime
               /\ \A e \in emitted' : e.type # "SESSION_TICK"]_vars

\* C16: from the SESSION_STOPPED of a user until the next SESSION_STARTED,
\* no live session record of the user exists, whatever was in flight when
\* the Stop ran.
C16_NoRecordAfterStop ==
  \A u \in Users : logical[u] = "idle" => LiveRecords(u) = 0

\* the codes of the error events the handlers send
ErrorCodes ==
  {"SESSION_LOCK_FAILED", "SESSION_EXISTS", "SESSION_START_ERROR",
   "UNAUTHORIZED", "SESSION_NOT_FOUND", "SESSION_PAUSE_ERROR",
   "SESSION_RESUME_ERROR", "SESSION_STOP_ERROR", "SESSION_SYNC_ERROR"}

\* the handler of connection s returns in this step
Returns(s) ==
  /\ pc'[s] = "idle"
  /\ pc[s] # "idle" \/ \E u \in AllUsers : ClientEvent(s, u)

C18_RecoveryIsSync ==
  [][\A s \in Sockets :
       RecoverGetSession(s) =>
         LET u == hl[s].user
             session == GetSession(u, redisUp)
         IN IF Exists(session)
              THEN /\ sockUser'[s] = u
                   /\ s \in userSockets'[u]
                   /\ session.status = ACTIVE => intervals'[u] = 1
                   /\ emitted' = {Event(s, "SESSION_SYNC", u, SyncElapsedTime(session), ""),
                                  Event(s, "SESSION_STATE", u, SyncElapsedTime(session), "")}
              ELSE emitted' = {ErrorEvent(s, u, "SESSION_NOT_FOUND")}]_vars

\* C18 (amended): the recovery binds and registers the connection and
\* restarts the timer of an Active session as a Sync does, but it sends
\* SESSION_STATE alone; with no live session it sends nothing and changes
\* neither the binding nor the timers.
C18_RecoverySendsStateOnly ==
  [][\A s \in Sockets :
       RecoverGetSession(s) =>
         LET u == hl[s].user
             session == GetSession(u, redisUp)
         IN IF Exists(session)
              THEN /\ sockUser'[s] = u
                   /\ s \in userSockets'[u]
                   /\ session.status = ACTIVE => intervals'[u] = 1
                   /\ session.status # ACTIVE => intervals'[u] = intervals[u]
                   /\ emitted' = {Event(s, "SESSION_STATE", u, SyncElapsedTime(session), "")}
              ELSE /\ emitted' = {}
                   /\ UNCHANGED << regVars, timerVars >>]_vars

\* C18 witness: a reconnecting connection was bound to the user of a running
\* session, the timer runs, and SESSION_STATE is all it was sent.
C18_RecoveredActive ==
  \E s \in Sockets, u \in Users :
    /\ \E e \in emitted : emitted = {e} /\ e.type = "SESSION_STATE" /\ e.sock = s
    /\ sockUser[s] = u
    /\ s \in userSockets[u]
    /\ intervals[u] = 1
    /\ GetSession(u, redisUp).status = ACTIVE

\* C19: whenever the durable store does not answer the query of GET
\* /sessions, the response is status 200 with an empty list and cached false,
\* whatever the failure is.
C19_StoreFailureAnswered200 ==
  [][(http.pc = "db" /\ ~dbUp /\ GetSessionsDb)
       => http' = Response(200, << >>, FALSE)]_vars

\* C20: every user has at most one running interval, and it is the one
\* recorded in activeTimers.
C20_OneTimerPerUser ==
  \A u \in AllUsers : /\ intervals[u] <= 1
                       /\ activeTimers[u] <=> intervals[u] = 1

\* C20 witness: a Sync restarted the timer of a running session while a
\* callback of the previous interval was still in flight, and one interval
\* runs.
C20_RestartedWhileRunning ==
  \E u \in Users :
    /\ \E e \in emitted : e.type = "SESSION_SYNC" /\ e.user = u
    /\ tpc[u] # "idle"
    /\ GetSession(u, redisUp).status = ACTIVE
    /\ intervals[u] = 1

\* the user's interval has a firing to come: it is due, or its callback is
\* about to read the session, or the clock can still move
FiringToCome(u) ==
  tickDue[u] \/ tpc[u] = "tick_get" \/ nClock < MaxClockSteps

\* C21: whenever a user has a running timer and no live session record, the
\* timer eventually stops (or a session record exists again first), given
\* that due intervals fire and store calls return.
C21_OrphanTimerStops ==
  \A u \in Users :
    (~Exists(GetSession(u, redisUp)) /\ intervals[u] > 0 /\ FiringToCome(u))
      ~> (intervals[u] = 0 \/ Exists(GetSession(u, redisUp)))

\* C21 witness: a Sync that raced with a Stop has restarted the timer of a
\* deleted session, and the interval has fired.
C21_OrphanTimerFired ==
  \E u \in Users :
    /\ ~Exists(GetSession(u, redisUp))
    /\ logical[u] = "idle"
    /\ intervals[u] = 1
    /\ tpc[u] = "tick_get"

\* C22: a SESSION_TICK for user u goes to every connection bound to u and
\* to no connection bound to another user.
C22_TicksOnlyToBound ==
  [][\A e \in emitted' :
       e.type = "SESSION_TICK" =>
         /\ sockUser[e.sock] = e.user
         /\ \A s \in Sockets :
              (connected[s] /\ sockUser[s] = e.user)
                => \E t \in emitted' :
                     t.sock = s /\ t.type = "SESSION_TICK" /\ t.user = e.user]_vars

\* C23: a user with no registered connection has no running timer.
C23_NoTimerWithoutConnection ==
  \A u \in AllUsers : userSockets[u] = {} => intervals[u] = 0

\* C24: a connection that is not connected is in no user's registry set.
C24_DisconnectedUnregistered ==
  \A s \in Sockets : ~connected[s] => \A u \in AllUsers : s \notin userSockets[u]

\* C25: a disconnect (the only place a connection is unbound outside Stop)
\* changes neither the live session records nor the locks nor the durable
\* store.
C25_DisconnectKeepsSession ==
  [][\A s \in Sockets :
       Disconnect(s) => /\ UNCHANGED << storeVars, lockVars, db >>
                        /\ \A u \in AllUsers :
                             GetSession(u, redisUp)' = GetSession(u, redisUp)]_vars

\* C25 witness: the last connection of a user has gone, the timer is
\* stopped, and the session is still Active in the live store with its lock.
C25_SessionOutlivesConnection ==
  \E s \in Sockets, u \in Users :
    /\ ~connected[s]
    /\ sockUser[s] = u
    /\ userSockets[u] = {}
    /\ intervals[u] = 0
    /\ GetSession(u, redisUp).status = ACTIVE
    /\ lockGrant[u] # 0

\* C26: no step of a Sync or of a reconnect recovery changes a stored session
\* record, a lock or the durable store.
C26_SyncReadOnly ==
  [][\A s \in Sockets :
       (\/ SyncGetSession(s) \/ RecoverGetSession(s)
        \/ \E u \in AllUsers : HandleSessionSync(s, u) \/ Connect(s, u))
         => /\ UNCHANGED << redisSess, heap, lockVars, db >>
            /\ \A u \in AllUsers : GetSession(u, redisUp)' = GetSession(u, redisUp)]_vars

\* C26 witness: a Sync has answered for a Paused session that has accumulated
\* time, and the record is there as it was.
C26_SyncedPaused ==
  \E e \in emitted :
    /\ e.type = "SESSION_SYNC"
    /\ GetSession(e.user, redisUp).status = PAUSED
    /\ GetSession(e.user, redisUp).elapsedTime = e.elapsedTime
    /\ e.elapsedTime > 0

\* C27: a Sync or a recovery of a connected socket that reads an Active
\* session leaves the socket bound and registered and one timer running for
\* the user, also when none ran before; one that reads a Paused session
\* leaves the timers as they were.
C27_SyncResurrectsTimer ==
  [][\A s \in Sockets :
       (connected[s] /\ (SyncGetSession(s) \/ RecoverGetSession(s))) =>
         LET u == hl[s].user
             session == GetSession(u, redisUp)
         IN /\ session.status = ACTIVE => /\ sockUser'[s] = u
                                          /\ s \in userSockets'[u]
                                          /\ intervals'[u] = 1
                                          /\ activeTimers'[u]
            /\ session.status = PAUSED => UNCHANGED timerVars]_vars

\* C27 witness: the session ran with no connection and no timer, and a Sync
\* or a recovery has bound a connection and a timer runs again.
C27_TimerResurrected ==
  \E s \in Sockets, u \in Users :
    /\ awaySec[u] > 0
    /\ \E e \in emitted : e.type = "SESSION_STATE" /\ e.sock = s /\ e.user = u
    /\ connected[s]
    /\ s \in userSockets[u]
    /\ GetSession(u, redisUp).status = ACTIVE
    /\ intervals[u] = 1

C29_LockFailedChangesNothing ==
  [][\A s \in Sockets, u \in AllUsers :
       (hl[s].user = u /\ lockGrant[u] > now /\ StartAcquireLock(s))
         => /\ emitted' = {ErrorEvent(s, u, "SESSION_LOCK_FAILED")}
            /\ pc'[s] = "idle"
            /\ UNCHANGED << storeVars, lockVars, regVars, timerVars, db >>
            /\ lockGrant'[u] = lockGrant[u]]_vars

\* C30: a Start that has acquired the lock while a live session of the user
\* exists goes on to release the lock, and that step emits SESSION_EXISTS,
\* leaves the user without a lock and leaves the session records, the timers,
\* the registry and the bindings unchanged.
C30_ExistsReleasesLock ==
  [][\A s \in Sockets, u \in AllUsers :
       hl[s].user = u =>
         /\ (StartGetSession(s) /\ LiveRecords(u) > 0) => pc'[s] = "start_release"
         /\ StartReleaseLock(s) =>
              /\ emitted' = {ErrorEvent(s, u, "SESSION_EXISTS")}
              /\ redisLock'[u] <= now /\ memLock'[u] <= now
              /\ UNCHANGED << storeVars, timerVars, regVars, db >>]_vars

\* C31: the step of a Stop that emits SESSION_STOPPED leaves the user without
\* a lock in the cache and in the in-memory map, with no running timer and
\* with the stopping connection unbound and unregistered; and the Start that
\* follows the SESSION_STOPPED of a user is answered SESSION_STARTED.
C31_StopDestroysLock ==
  [][\A s \in Sockets, u \in AllUsers :
       hl[s].user = u =>
         /\ StopReleaseLock(s) =>
              /\ emitted' = {Event(s, "SESSION_STOPPED", u, hl[s].finalElapsedTime, "")}
              /\ redisLock'[u] <= now /\ memLock'[u] <= now
              /\ intervals'[u] = 0 /\ ~activeTimers'[u]
              /\ sockUser'[s] = NoUser /\ s \notin userSockets'[u]
         /\ (/\ logical[u] = "idle"
             /\ \E r \in db : r.userId = u
             /\ StartStep(s) /\ pc'[s] = "idle")
              => \E e \in emitted' : e.type = "SESSION_STARTED" /\ e.user = u]_vars

\* C32: a tick firing interleaved with a Pause leaves the record as one of
\* the two serial orders would; in particular, from the SESSION_PAUSED of a
\* user until a Resume or a Stop is handled, the stored status of the user's
\* session is Paused.
C32_PausedStaysPaused ==
  \A u \in Users :
    (logical[u] = PAUSED /\ \A s \in Sockets : pc[s] = "idle")
      => GetSession(u, redisUp).status = PAUSED

\* C33: a session whose stored status is Active is still in the live store
\* after every advance of the clock, whatever connects, disconnects and tick
\* firings came before.
C33_ActiveNeverExpires ==
  [][\A u \in Users :
       (GetSession(u, redisUp).status = ACTIVE /\ now' # now)
         => Exists(GetSession(u, redisUp)')]_vars

\* seconds of clock time the user's session has spent Paused: for a client
\* following the protocol the session is Active or Paused at every instant
\* after its Start, so it is the time since startTime that was not Active
PausedSeconds(u, startTime) == (now - startTime) \div 1000 - activeSec[u]

\* C34: the pausedTime of the durable record a Stop writes equals the clock
\* time the session spent Paused, a pause still open at the Stop included.
C34_PausedTimePersisted ==
  [][\A s \in Sockets :
       StopCreate(s) =>
         \A r \in db' \ db : r.pausedTime = PausedSeconds(r.userId, r.startTime)]_vars

\* C35: a step of persistCompletedSession that finds the durable store
\* unreachable returns to its caller, which goes on, with the outcome
\* "unavailable" (no record id, nothing created), and leaves the durable
\* store unchanged.
C35_PersistNeverRaises ==
  [][\A s \in Sockets :
       (~dbUp /\ (StopFindFirst(s) \/ StopCreate(s)))
         => /\ pc'[s] = "stop_delete"
            /\ hl'[s].persistedId = 0 /\ ~hl'[s].created
            /\ db' = db]_vars

\* the step belongs to a handler or a tick callback that runs for user u
RunsFor(u) ==
  \/ TickStep(u)
  \/ \E s \in Sockets : ClientEvent(s, u)
  \/ \E s \in Sockets : hl[s].user = u /\ HandlerStep(s)

\* C36: a step of an event handler or of a tick callback that runs for user
\* u leaves the session record, the lock and the timer of every other user
\* as they were.
C36_UserIsolation ==
  [][\A u \in AllUsers, v \in AllUsers :
       (u # v /\ RunsFor(u))
         => /\ redisSess'[v] = redisSess[v] /\ memSess'[v] = memSess[v]
            /\ GetSession(v, redisUp)' = GetSession(v, redisUp)
            /\ redisLock'[v] = redisLock[v] /\ memLock'[v] = memLock[v]
            /\ intervals'[v] = intervals[v]
            /\ activeTimers'[v] = activeTimers[v]
            /\ tickDue'[v] = tickDue[v]]_vars

\* C36 witness: both users have a live session, a lock and a running timer,
\* and a tick callback of one of them has just written its record.
C36_BothRunning ==
  /\ \A u \in AllUsers : /\ Exists(GetSession(u, redisUp))
                         /\ redisLock[u] > now
                         /\ intervals[u] = 1
  /\ \E e \in emitted : e.type = "SESSION_TICK" /\ e.elapsedTime > 0

\* C37: the step in which a Pause, Resume or Stop of a bound connection, or a
\* Sync of any connection, reads the session of a user who has none emits
\* the one error SESSION_NOT_FOUND and returns; no session record exists
\* afterwards, and the store, the locks, the registry, the bindings, the
\* timers and the durable store are as before.
C37_NotFoundChangesNothing ==
  [][\A s \in Sockets, u \in AllUsers :
       (/\ hl[s].user = u
        /\ ~Exists(GetSession(u, redisUp))
        /\ PauseRead(s) \/ ResumeRead(s) \/ StopGetSession(s) \/ SyncGetSession(s))
         => /\ emitted' = {ErrorEvent(s, u, "SESSION_NOT_FOUND")}
            /\ pc'[s] = "idle"
            /\ ~Exists(GetSession(u, redisUp)')
            /\ UNCHANGED << storeVars, lockVars, regVars, timerVars, db >>]_vars

\* C37 witness: a connection bound to and registered for the user was just
\* answered SESSION_NOT_FOUND: the other device had stopped the session.
C37_NotFoundForBound ==
  \E s \in Sockets, u \in Users :
    /\ emitted = {ErrorEvent(s, u, "SESSION_NOT_FOUND")}
    /\ sockUser[s] = u /\ s \in userSockets[u]
    /\ \E r \in db : r.userId = u
    /\ ~Exists(GetSession(u, redisUp))

\* C38: the sessions list of a GET /sessions response contains every record
\* of the user that a Stop persisted before the request was issued (the
\* records that ended before the instant of the request), also when the
\* history cache was filled before that Stop.
C38_HistoryShowsNewRecord ==
  [][(http.pc # "idle" /\ http'.pc = "idle" /\ http'.status = 200)
       => \A r \in db :
            (r.userId = http.user /\ r.endTime < now)
              => \E i \in 1..Len(http'.sessions) : http'.sessions[i] = r]_vars

\* C39: with the durable store available, the live session that a Stop
\* handler's deleteSession removes has a durable record with its (userId,
\* startTime): a Stop never deletes a session that was not persisted, such as
\* a newer session started after a concurrent Stop removed the one it read.
C39_StopDeletesOnlyPersisted ==
  [][\A s \in Sockets, u \in AllUsers :
       (hl[s].user = u /\ dbUp /\ StopDeleteSession(s)
          /\ Exists(GetSession(u, redisUp)))
         => \E r \in db : /\ r.userId = u
                          /\ r.startTime = GetSession(u, redisUp).startTime]_vars

\* C40: a Start handler that acquired the lock and returns without
\* SESSION_STARTED has released the lock it acquired: the lock is no longer
\* held in the store that granted it, so that the next Start is not refused
\* until the TTL expires.
C40_FailedStartFreesLock ==
  [][\A s \in Sockets, u \in AllUsers :
       (/\ hl[s].user = u
        /\ StartGetSession(s) \/ StartReleaseLock(s) \/ StartCreateSession(s)
        /\ pc'[s] = "idle"
        /\ \A e \in emitted' : e.type # "SESSION_STARTED")
         => /\ hl[s].lockIn = "cache" => redisLock'[u] <= now
            /\ hl[s].lockIn = "memory" => memLock'[u] <= now]_vars

====
